---- MODULE Spec2Model ----
(***************************************************************************)
(* A model of the snmp2 helpers: the retrying SnmpClient (client.rs), the  *)
(* SessionExt walk and single-value operations (session.rs), OwnedValue    *)
(* and the text conversions (value.rs) and OID text (oid.rs).              *)
(*                                                                         *)
(* Text is a sequence of code points (46 is '.', 48..57 the digits), bytes *)
(* are sequences of 0..255, an OID is its sequence of arcs, and a value is *)
(* a record [kind, v] whose payload v is always a sequence of integers.    *)
(***************************************************************************)
EXTENDS Integers, Sequences, FiniteSets, TLC

\* ------------------------------------------------------------------ bounds

\* Largest ordinary retry count a client is built with.
MaxRetries == 2
\* A retry count whose loop passes attempt 64, where 1u64 << attempt overflows.
OverflowRetries == 66
\* A non-conformant device stops answering inside the subtree after this many pairs.
MaxWalkLen == 2

\* Longest OID, in arcs, that is_subtree is applied to on its own.
MaxArcs == 3

\* The longest text of the enumerated inputs of parse_oid.
MaxTextLen == 4

\* The longest byte string of the enumerated wire values.
MaxBytes == 2

\* The longest result of walk_values that the derived walks are applied to.
MaxPairs == 2

\* The most groups of two characters in a text, and the most raw bytes, that
\* parse_mac is applied to.
MaxGroups == 6
MaxRawLen == 6

\* Width of the u64 that backoff_duration shifts.
U64Bits == 64

\* ------------------------------------------------------------------- text

Dot == 46
Minus == 45
Replacement == 65533

RECURSIVE ToDecimal(_)
\* u32/u64 Display: the decimal digits of n >= 0.
ToDecimal(n) == IF n < 10 THEN <<48 + n>> ELSE ToDecimal(n \div 10) \o <<48 + (n % 10)>>

\* i64 Display.
I64ToString(i) == IF i < 0 THEN <<Minus>> \o ToDecimal(0 - i) ELSE ToDecimal(i)

RECURSIVE JoinDots(_)
\* parts joined by '.'.
JoinDots(parts) ==
    IF parts = <<>> THEN <<>>
    ELSE IF Len(parts) = 1 THEN parts[1]
    ELSE parts[1] \o <<Dot>> \o JoinDots(Tail(parts))

\* Oid::to_string: the arcs in decimal, joined by '.'.
oid_to_string(arcs) == JoinDots([i \in 1..Len(arcs) |-> ToDecimal(arcs[i])])

\* str::starts_with.
starts_with(s, prefix) ==
    /\ Len(s) >= Len(prefix)
    /\ \A i \in 1..Len(prefix) : s[i] = prefix[i]

RECURSIVE SplitDots(_)
\* str::split('.'): always at least one (possibly empty) part.
SplitDots(s) ==
    IF \A i \in 1..Len(s) : s[i] # Dot THEN <<s>>
    ELSE LET k == CHOOSE i \in 1..Len(s) : s[i] = Dot /\ \A j \in 1..(i - 1) : s[j] # Dot
         IN  <<SubSeq(s, 1, k - 1)>> \o SplitDots(SubSeq(s, k + 1, Len(s)))

RECURSIVE DigitsValue(_)
DigitsValue(s) ==
    IF s = <<>> THEN 0 ELSE 10 * DigitsValue(SubSeq(s, 1, Len(s) - 1)) + (s[Len(s)] - 48)

RECURSIVE StripZeros(_)
\* The digits of s without leading zeros.
StripZeros(s) == IF s # <<>> /\ s[1] = 48 THEN StripZeros(Tail(s)) ELSE s

\* u32::MAX in decimal: 4294967295.
U32MaxText == <<52, 50, 57, 52, 57, 54, 55, 50, 57, 53>>

RECURSIVE DigitsLeq(_, _)
\* a <= b for two digit texts of the same length.
DigitsLeq(a, b) ==
    IF a = <<>> THEN TRUE
    ELSE IF a[1] # b[1] THEN a[1] < b[1]
    ELSE DigitsLeq(Tail(a), Tail(b))

\* Whether the number written by the digits s is at most u32::MAX.
FitsU32(s) ==
    LET sig == StripZeros(s)
    IN  \/ Len(sig) < Len(U32MaxText)
        \/ Len(sig) = Len(U32MaxText) /\ DigitsLeq(sig, U32MaxText)

\* str::parse::<u32>: an optional '+', then one or more digits whose value is
\* at most u32::MAX. (The texts the model parses successfully stay below 2^31.)
ParseU32(s) ==
    LET t == IF s # <<>> /\ s[1] = 43 THEN Tail(s) ELSE s
    IN  IF t = <<>> \/ (\E i \in 1..Len(t) : t[i] < 48 \/ t[i] > 57) \/ ~FitsU32(t)
        THEN [ok |-> FALSE, n |-> 0]
        ELSE [ok |-> TRUE, n |-> DigitsValue(t)]

\* String::from_utf8_lossy on the model's bytes: ASCII bytes are themselves,
\* and a byte 0xF8..0xFF (never part of valid UTF-8) is one U+FFFD.
from_utf8_lossy(bytes) ==
    [i \in 1..Len(bytes) |-> IF bytes[i] < 128 THEN bytes[i] ELSE Replacement]

RECURSIVE into_bytes(_)
\* String::into_bytes: the UTF-8 encoding (U+FFFD is EF BF BD).
into_bytes(s) ==
    IF s = <<>> THEN <<>>
    ELSE (IF s[1] = Replacement THEN <<239, 191, 189>> ELSE <<s[1]>>) \o into_bytes(Tail(s))

\* The literal texts of value.rs.
StrNull == <<110, 117, 108, 108>>
StrTrue == <<116, 114, 117, 101>>
StrFalse == <<102, 97, 108, 115, 101>>
StrEndOfMibView == <<69, 110, 100, 79, 102, 77, 105, 98, 86, 105, 101, 119>>
StrNoSuchObject == <<78, 111, 83, 117, 99, 104, 79, 98, 106, 101, 99, 116>>
StrNoSuchInstance == <<78, 111, 83, 117, 99, 104, 73, 110, 115, 116, 97, 110, 99, 101>>
StrUnknown == <<60, 117, 110, 107, 110, 111, 119, 110, 62>>
\* format!("Opaque({} bytes)", n)
StrOpaque(n) == <<79, 112, 97, 113, 117, 101, 40>> \o ToDecimal(n)
                    \o <<32, 98, 121, 116, 101, 115, 41>>
\* format!("{}.{}.{}.{}", ip[0], ip[1], ip[2], ip[3])
StrIp(ip) == JoinDots([i \in 1..4 |-> ToDecimal(ip[i])])

\* ----------------------------------------------------------------- values

Val(kind, v) == [kind |-> kind, v |-> v]

NullV == Val("Null", <<>>)

\* The kinds OwnedValue has; a wire Value has these and structural kinds
\* (Sequence, GetRequest, Response, ...) that OwnedValue does not.
OwnedKinds ==
    {"Boolean", "Null", "Integer", "OctetString", "ObjectIdentifier", "IpAddress",
     "Counter32", "Unsigned32", "Timeticks", "Opaque", "Counter64",
     "EndOfMibView", "NoSuchObject", "NoSuchInstance"}

\* OwnedValue::from_value.
from_value(value) ==
    IF value.kind = "ObjectIdentifier" THEN Val("ObjectIdentifier", oid_to_string(value.v))
    ELSE IF value.kind \in OwnedKinds THEN value
    ELSE NullV

\* is_error that takes Null for a marker too.
is_error_WithNull(owned) ==
    owned.kind \in {"EndOfMibView", "NoSuchObject", "NoSuchInstance", "Null"}

\* OwnedValue::is_error.
is_error(owned) == owned.kind \in {"EndOfMibView", "NoSuchObject", "NoSuchInstance"}

\* A numeric payload is <<n>> for a number n that the model checker's integers
\* hold, and <<k, e>> for the number k + e * 2^63: <<0 - 1, 1>> is i64::MAX,
\* <<0, 1>> is 2^63, <<0 - 1, 2>> is u64::MAX and <<0, 0 - 1>> is i64::MIN.
\* |k| is far below 2^63, so e alone orders numbers of different e.
Epoch(v) == IF Len(v) = 2 THEN v[2] ELSE 0

\* The number is at least 0.
NonNegative(v) == Epoch(v) > 0 \/ (Epoch(v) = 0 /\ v[1] >= 0)

\* The number is at most i64::MAX.
AtMostI64Max(v) == Epoch(v) <= 0 \/ (Epoch(v) = 1 /\ v[1] < 0)

\* Option<T>
Some(v) == [some |-> TRUE, v |-> v]
None == [some |-> FALSE, v |-> <<>>]

\* as_i64 with the cast `c as i64`, which wraps a Counter64 above i64::MAX.
as_i64_Truncating(owned) ==
    IF owned.kind \in {"Integer", "Counter32", "Unsigned32", "Timeticks"} THEN Some(owned.v)
    ELSE IF owned.kind = "Counter64"
    THEN IF AtMostI64Max(owned.v) THEN Some(owned.v)
         ELSE Some(<<owned.v[1], owned.v[2] - 2>>)
    ELSE None

\* OwnedValue::as_i64.
as_i64(owned) ==
    IF owned.kind \in {"Integer", "Counter32", "Unsigned32", "Timeticks"} THEN Some(owned.v)
    ELSE IF owned.kind = "Counter64"
    THEN IF AtMostI64Max(owned.v) THEN Some(owned.v) ELSE None
    ELSE None

\* OwnedValue::as_u64.
as_u64(owned) ==
    IF owned.kind \in {"Counter32", "Unsigned32", "Timeticks", "Counter64"} THEN Some(owned.v)
    ELSE IF owned.kind = "Integer"
    THEN IF NonNegative(owned.v) THEN Some(owned.v) ELSE None
    ELSE None

\* OwnedValue::to_string_lossy.
to_string_lossy(owned) ==
    CASE owned.kind = "Boolean" -> IF owned.v[1] = 1 THEN StrTrue ELSE StrFalse
      [] owned.kind = "Null" -> StrNull
      [] owned.kind = "Integer" -> I64ToString(owned.v[1])
      [] owned.kind = "OctetString" -> from_utf8_lossy(owned.v)
      [] owned.kind = "ObjectIdentifier" -> owned.v
      [] owned.kind = "IpAddress" -> StrIp(owned.v)
      [] owned.kind \in {"Counter32", "Unsigned32", "Timeticks", "Counter64"} ->
            ToDecimal(owned.v[1])
      [] owned.kind = "Opaque" -> StrOpaque(Len(owned.v))
      [] owned.kind = "EndOfMibView" -> StrEndOfMibView
      [] owned.kind = "NoSuchObject" -> StrNoSuchObject
      [] owned.kind = "NoSuchInstance" -> StrNoSuchInstance

\* value_to_string, on a wire value.
value_to_string(value) ==
    CASE value.kind = "Integer" -> I64ToString(value.v[1])
      [] value.kind = "OctetString" -> from_utf8_lossy(value.v)
      [] value.kind = "ObjectIdentifier" -> oid_to_string(value.v)
      [] value.kind = "IpAddress" -> StrIp(value.v)
      [] value.kind \in {"Counter32", "Counter64", "Timeticks", "Unsigned32"} ->
            ToDecimal(value.v[1])
      [] value.kind = "Null" -> StrNull
      [] value.kind = "EndOfMibView" -> StrEndOfMibView
      [] value.kind = "NoSuchObject" -> StrNoSuchObject
      [] value.kind = "NoSuchInstance" -> StrNoSuchInstance
      [] value.kind = "Boolean" -> IF value.v[1] = 1 THEN StrTrue ELSE StrFalse
      [] value.kind = "Opaque" -> StrOpaque(Len(value.v))
      [] OTHER -> StrUnknown

\* ------------------------------------------------------------------- OIDs

\* Oid::from(&[u32]): an OID has at least one arc.
OidFrom(arcs) == IF arcs = <<>> THEN [ok |-> FALSE, oid |-> <<>>] ELSE [ok |-> TRUE, oid |-> arcs]

RECURSIVE TrimLeadingDots(_)
\* str::trim_start_matches('.'): every leading '.' is removed.
TrimLeadingDots(s) == IF s # <<>> /\ s[1] = Dot THEN TrimLeadingDots(Tail(s)) ELSE s

\* parse_oid with a part that does not parse taken as 0, as walk_values does.
parse_oid_UnwrapOrZero(s) ==
    LET parts == SplitDots(TrimLeadingDots(s))
    IN  OidFrom([i \in 1..Len(parts) |->
                    IF ParseU32(parts[i]).ok THEN ParseU32(parts[i]).n ELSE 0])

\* parse_oid: the text without its leading dots, split on '.', every part
\* parsed as u32, and the Oid of the arcs.
parse_oid(s) ==
    LET parts  == SplitDots(TrimLeadingDots(s))
        parsed == [i \in 1..Len(parts) |-> ParseU32(parts[i])]
        made   == OidFrom([i \in 1..Len(parts) |-> parsed[i].n])
    IN  IF \E i \in 1..Len(parts) : ~parsed[i].ok THEN [ok |-> FALSE, oid |-> <<>>]
        ELSE made

\* is_subtree as a plain test of the textual prefix.
is_subtree_textual(base, candidate) == starts_with(candidate, base)

\* is_subtree, on the two texts.
is_subtree(base, candidate) ==
    IF candidate = base THEN TRUE
    ELSE IF Len(candidate) > Len(base)
         THEN starts_with(candidate, base) /\ candidate[Len(base) + 1] = Dot
         ELSE FALSE

\* NextCursor that leaves the cursor at the oid the walk started from.
NextCursor_Stuck(next_oid_str, oid) == oid

\* The cursor walk_values continues from: the text of next_oid split on '.',
\* each part parsed as u32 (0 when that fails), made an Oid again, and the base
\* oid when that fails.
NextCursor(next_oid_str, oid) ==
    LET parts == SplitDots(next_oid_str)
        arcs  == [i \in 1..Len(parts) |->
                    IF ParseU32(parts[i]).ok THEN ParseU32(parts[i]).n ELSE 0]
        made  == OidFrom(arcs)
    IN  IF made.ok THEN made.oid ELSE oid

\* ------------------------------------------------------------------- MACs

\* The lengths parse_mac tests for: raw bytes, formatted text, hex digits.
MacBytes == 6
MacTextLen == 17
MacHexLen == 12
Colon == 58

RECURSIVE JoinWith(_, _)
\* parts joined by the character sep.
JoinWith(parts, sep) ==
    IF parts = <<>> THEN <<>>
    ELSE IF Len(parts) = 1 THEN parts[1]
    ELSE parts[1] \o <<sep>> \o JoinWith(Tail(parts), sep)

\* format!("{:02x}", b)
HexDigit(n) == IF n < 10 THEN 48 + n ELSE 87 + n
ByteHex(b) == <<HexDigit(b \div 16), HexDigit(b % 16)>>

\* format_mac: the bytes in two lowercase hex digits each, joined by ':'.
format_mac(bytes) == JoinWith([i \in 1..Len(bytes) |-> ByteHex(bytes[i])], Colon)

\* u8::is_ascii, and std::str::from_utf8(bytes).is_ok() on the model's bytes
\* (a byte that is not ASCII is 0xF8..0xFF there, never part of valid UTF-8).
is_ascii(b) == b < 128
AllAscii(bytes) == \A i \in 1..Len(bytes) : is_ascii(bytes[i])
IsUtf8(bytes) == \A i \in 1..Len(bytes) : bytes[i] < 128

\* char::is_whitespace on ASCII, and str::trim.
is_whitespace(c) == c \in {9, 10, 11, 12, 13, 32}
RECURSIVE TrimStart(_)
TrimStart(s) == IF s # <<>> /\ is_whitespace(s[1]) THEN TrimStart(Tail(s)) ELSE s
RECURSIVE TrimEnd(_)
TrimEnd(s) ==
    IF s # <<>> /\ is_whitespace(s[Len(s)]) THEN TrimEnd(SubSeq(s, 1, Len(s) - 1)) ELSE s
trim(s) == TrimEnd(TrimStart(s))

\* str::to_lowercase on ASCII, str::replace of one character, the number of
\* occurrences of a character, char::is_ascii_hexdigit, str::strip_prefix("0x").
to_lowercase(s) == [i \in 1..Len(s) |-> IF s[i] \in 65..90 THEN s[i] + 32 ELSE s[i]]
replace(s, from, to) == [i \in 1..Len(s) |-> IF s[i] = from THEN to ELSE s[i]]
count(s, c) == Cardinality({i \in 1..Len(s) : s[i] = c})
is_ascii_hexdigit(c) == c \in (48..57) \cup (65..70) \cup (97..102)
strip_prefix_0x(s) ==
    IF Len(s) >= 2 /\ s[1] = 48 /\ s[2] = 120 THEN SubSeq(s, 3, Len(s)) ELSE s

\* hex.as_bytes().chunks(2)
chunks2(s) == [i \in 1..((Len(s) + 1) \div 2) |->
                  SubSeq(s, 2 * i - 1, IF 2 * i <= Len(s) THEN 2 * i ELSE Len(s))]

\* parse_mac, the case of a string representation: Some(text) or None.
parse_mac_text(s) ==
    LET hex == strip_prefix_0x(s)
    IN  IF Len(s) = MacTextLen /\ count(s, Colon) = 5 THEN Some(to_lowercase(s))
        ELSE IF Len(s) = MacTextLen /\ count(s, Minus) = 5
        THEN Some(to_lowercase(replace(s, Minus, Colon)))
        ELSE IF Len(hex) = MacHexLen /\ \A i \in 1..Len(hex) : is_ascii_hexdigit(hex[i])
        THEN Some(to_lowercase(JoinWith(chunks2(hex), Colon)))
        ELSE None

\* parse_mac.
parse_mac(bytes) ==
    IF Len(bytes) = MacBytes /\ ~AllAscii(bytes) THEN Some(format_mac(bytes))
    ELSE IF IsUtf8(bytes) /\ parse_mac_text(trim(bytes)).some THEN parse_mac_text(trim(bytes))
    ELSE IF Len(bytes) = MacBytes THEN Some(format_mac(bytes))
    ELSE None

\* ------------------------------------------- values: bytes, text, address

\* std::str::from_utf8(bytes).ok(): the same bytes seen as text, when valid.
from_utf8(bytes) == IF IsUtf8(bytes) THEN Some(bytes) ELSE None

\* OwnedValue::as_bytes, as_str and as_ipv4.
as_bytes(owned) == IF owned.kind \in {"OctetString", "Opaque"} THEN Some(owned.v) ELSE None
as_str(owned) == IF owned.kind = "OctetString" THEN from_utf8(owned.v) ELSE None
as_ipv4(owned) == IF owned.kind = "IpAddress" THEN Some(owned.v) ELSE None

\* impl ValueExt for Value: the conversions of a wire value.
ValueExt_to_string_lossy(value) == value_to_string(value)
ValueExt_as_i64(value) ==
    IF value.kind \in {"Integer", "Counter32", "Unsigned32", "Timeticks"} THEN Some(value.v)
    ELSE IF value.kind = "Counter64"
    THEN IF AtMostI64Max(value.v) THEN Some(value.v) ELSE None
    ELSE None
ValueExt_as_u64(value) ==
    IF value.kind \in {"Counter32", "Unsigned32", "Timeticks", "Counter64"} THEN Some(value.v)
    ELSE IF value.kind = "Integer"
    THEN IF NonNegative(value.v) THEN Some(value.v) ELSE None
    ELSE None
ValueExt_as_bytes(value) == IF value.kind = "OctetString" THEN Some(value.v) ELSE None
ValueExt_as_str(value) ==
    IF ValueExt_as_bytes(value).some THEN from_utf8(ValueExt_as_bytes(value).v) ELSE None
ValueExt_as_ipv4(value) == IF value.kind = "IpAddress" THEN Some(value.v) ELSE None

\* ----------------------------------------------------------------- client

\* The client configurations: SnmpClient::new followed by the with_* builders.
\* overflow_checks is the build's setting (on in a debug build, off in a
\* release build); it decides what an overflowing shift does.
RetrySet == (0..MaxRetries) \cup {OverflowRetries}
CapSet == {3, 8}
Configs ==
    [host : {"192.168.1.1:161"}, community : {"public"}, timeout : {2},
     starting_req_id : {0}, retries : RetrySet, max_backoff_secs : CapSet]

Min(a, b) == IF a < b THEN a ELSE b

RECURSIVE ShlMin(_, _, _)
\* min(acc << k, cap) for a u64 acc << k that does not overflow, computed
\* without leaving the model's integers: once acc >= cap the minimum is cap.
ShlMin(acc, k, cap) ==
    IF k = 0 THEN Min(acc, cap)
    ELSE IF acc >= cap THEN cap
    ELSE ShlMin(2 * acc, k - 1, cap)

\* SnmpClient::backoff_duration: (1u64 << attempt).min(max_backoff_secs).
\* A shift by U64Bits or more overflows: with overflow checks the thread
\* panics, without them the shift amount is taken modulo U64Bits.
backoff_duration(attempt, cap, checks) ==
    IF attempt >= U64Bits /\ checks
    THEN [panic |-> TRUE, secs |-> 0]
    ELSE [panic |-> FALSE, secs |-> ShlMin(1, attempt % U64Bits, cap)]

\* ----------------------------------------------------------------- device

\* The OID the client operations are called with.
Bases == {<<1, 3, 4>>}
\* The OIDs the device answers get-next with: inside the base subtree ...
InsideOids == {<<1, 3, 4>>, <<1, 3, 4, 1>>, <<1, 3, 4, 2>>}
\* ... and outside it: a shorter OID and a sibling sharing a textual prefix.
OutsideOids == {<<1, 3>>, <<1, 3, 41>>}
DevOids == InsideOids \cup OutsideOids

\* Wire values a get is answered with: every kind, and a structural one.
GetValues ==
    {NullV, Val("Boolean", <<1>>), Val("Integer", <<7>>), Val("Integer", <<0 - 42>>),
     Val("OctetString", <<>>), Val("OctetString", <<104, 105>>), Val("OctetString", <<255>>),
     Val("ObjectIdentifier", <<1, 3, 6>>), Val("IpAddress", <<10, 56, 27, 13>>),
     Val("Counter32", <<100>>), Val("Unsigned32", <<5>>), Val("Timeticks", <<9>>),
     Val("Opaque", <<1, 2>>), Val("Counter64", <<12>>),
     Val("EndOfMibView", <<>>), Val("NoSuchObject", <<>>), Val("NoSuchInstance", <<>>),
     Val("Sequence", <<>>)}

\* Wire values a get-next is answered with.
DataValues == {Val("Integer", <<7>>), Val("OctetString", <<255>>)}
TerminalValues == {Val("EndOfMibView", <<>>), Val("NoSuchObject", <<>>), Val("NoSuchInstance", <<>>)}
\* The (oid, value) pairs of its answers: data at every OID, and a terminal
\* marker at the last OID of the subtree and at the sibling after it.
DevPairs ==
    (DevOids \X DataValues) \cup ({<<1, 3, 4, 2>>, <<1, 3, 41>>} \X TerminalValues)

\* One exchange's outcome: a transport failure, a response without a result
\* pair, or a response whose first pair is (oid, value).
ErrResp == [kind |-> "err", oid |-> <<>>, value |-> NullV]
NoneResp == [kind |-> "none", oid |-> <<>>, value |-> NullV]
PairResp(oid, value) == [kind |-> "pair", oid |-> oid, value |-> value]

RECURSIVE OidLess(_, _)
\* The lexicographic order of OIDs, arc by arc.
OidLess(a, b) ==
    IF b = <<>> THEN FALSE
    ELSE IF a = <<>> THEN TRUE
    ELSE IF a[1] # b[1] THEN a[1] < b[1]
    ELSE OidLess(Tail(a), Tail(b))

\* ------------------------------------------------------------------ state

VARIABLES
    config,          \* the SnmpClient's fields
    overflow_checks, \* whether the build checks arithmetic overflow
    conformant,      \* whether the device's get-next always moves past the cursor
    pc,              \* where the calling thread is
    op,              \* the client operation running
    oid,             \* its argument
    version,         \* the session the operation holds: "none", "v2c" or "v1"
    attempt,         \* the retry loop's variable
    current_oid,     \* walk_values: the cursor
    results,         \* walk_values: the pairs collected
    responses,       \* the device's answers to the get-next requests of this walk
    wire,            \* the device's answer to the last get
    last,            \* what the last session operation returned
    result,          \* what the client operation returned
    io,              \* the last thing done to the outside: open, get, getnext, sleep
    opened,          \* per version: "no", "ok" or "failed"
    attempts_made,   \* per version: session operations started
    arg,             \* a pure function's arguments, where one is applied alone
    ret              \* and what it returned

client_vars == <<config, overflow_checks, conformant, pc, op, oid, version, attempt,
                 current_oid, results, responses, wire, last, result, io, opened,
                 attempts_made>>

vars == <<client_vars, arg, ret>>

SingleOps == {"get", "get_value"}
WalkOps == {"walk", "walk_bytes", "walk_values"}
ClientOps == SingleOps \cup WalkOps \cup {"connect"}

IoNone == [kind |-> "none", ver |-> "none", oid |-> <<>>, secs |-> 0]
IoOpen(ver) == [kind |-> "open", ver |-> ver, oid |-> <<>>, secs |-> 0]
IoRequest(kind, ver, o) == [kind |-> kind, ver |-> ver, oid |-> o, secs |-> 0]
IoSleep(secs) == [kind |-> "sleep", ver |-> "none", oid |-> <<>>, secs |-> secs]

Ok(v) == [ok |-> TRUE, val |-> v]
Err(e) == [ok |-> FALSE, val |-> e]
NoResult == Err("none")

\* The state of a client that is not inside an operation.
Idle ==
    /\ pc = "idle"
    /\ op = "none"
    /\ oid = <<>>
    /\ version = "none"
    /\ attempt = 0
    /\ current_oid = <<>>
    /\ results = <<>>
    /\ responses = <<>>
    /\ wire = NoneResp
    /\ last = NoResult
    /\ result = NoResult
    /\ io = IoNone
    /\ opened = [v2c |-> "no", v1 |-> "no"]
    /\ attempts_made = [v2c |-> 0, v1 |-> 0]

Init ==
    /\ config \in Configs
    /\ overflow_checks \in BOOLEAN
    /\ conformant = FALSE
    /\ Idle
    /\ arg = <<>>
    /\ ret = NoResult

\* ------------------------------------------------------- session operations

\* SessionExt::get_string on the answer to the get.
get_string(resp) ==
    IF resp.kind = "err" THEN Err("transport")
    ELSE IF resp.kind = "pair" THEN Ok(value_to_string(resp.value))
    ELSE Ok(<<>>)

\* SessionExt::get_value on the answer to the get.
get_value(resp) ==
    IF resp.kind = "err" THEN Err("transport")
    ELSE IF resp.kind = "pair" THEN Ok(from_value(resp.value))
    ELSE Ok(NullV)

\* Continues without the test for a terminal marker.
Continues_NoMarkerTest(base, resp) ==
    /\ resp.kind = "pair"
    /\ is_subtree(oid_to_string(base), oid_to_string(resp.oid))

\* Continues with a cycle guard: an OID that is not past the cursor ends the walk.
Continues_CycleGuard(base, resp) ==
    /\ resp.kind = "pair"
    /\ is_subtree(oid_to_string(base), oid_to_string(resp.oid))
    /\ ~is_error(from_value(resp.value))
    /\ OidLess(current_oid, resp.oid)

\* walk_values: whether the answer to a get-next is appended to the results.
Continues(base, resp) ==
    /\ resp.kind = "pair"
    /\ is_subtree(oid_to_string(base), oid_to_string(resp.oid))
    /\ ~is_error(from_value(resp.value))

\* value_bytes with an OctetString taken through its display text too.
value_bytes_LossyText(v) ==
    IF v.kind = "Opaque" THEN v.v
    ELSE IF v.kind = "IpAddress" THEN into_bytes(StrIp(v.v))
    ELSE into_bytes(to_string_lossy(v))

\* SessionExt::walk_bytes: the coercion of one walked value.
value_bytes(v) ==
    IF v.kind \in {"OctetString", "Opaque"} THEN v.v
    ELSE IF v.kind = "IpAddress" THEN into_bytes(StrIp(v.v))
    ELSE into_bytes(to_string_lossy(v))

\* SessionExt::walk_bytes, walk and walk_strings, on the pairs walk_values returned.
walk_bytes(pairs) == [i \in 1..Len(pairs) |-> value_bytes(pairs[i][2])]
walk(pairs) == [i \in 1..Len(pairs) |-> <<pairs[i][1], to_string_lossy(pairs[i][2])>>]
walk_strings(pairs) == [i \in 1..Len(pairs) |-> to_string_lossy(pairs[i][2])]

\* What the session's walk called by client operation o returns for the pairs
\* walk_values collected: walk_strings, walk_bytes or walk_values itself.
Project(o, pairs) ==
    CASE o = "walk" -> walk_strings(pairs)
      [] o = "walk_bytes" -> walk_bytes(pairs)
      [] o = "walk_values" -> pairs

\* ------------------------------------------------------------ the retry loop

\* The guard of the match arm that returns: Ok(val) if ...
Usable(o, out) ==
    /\ out.ok
    /\ CASE o = "get" -> out.val # <<>>
         [] o = "get_value" -> ~is_error(out.val) /\ out.val.kind # "Null"
         [] o \in WalkOps -> out.val # <<>>

\* Default with the last failure handed to the caller.
Default_Error(o) == Err("Send")

\* The value after both loops: Ok(String::new()), Ok(OwnedValue::Null), Ok(Vec::new()).
Default(o) == IF o = "get_value" THEN Ok(NullV) ELSE Ok(<<>>)

\* SleepsAfter with a sleep after the last attempt too.
SleepsAfter_AfterLast(a, retries) == a < retries

\* if attempt < self.retries - 1
SleepsAfter(a, retries) == a < retries - 1

\* AfterAttempt with the fallback taken after the first unusable v2c attempt.
AfterAttempt_EarlyFallback(out) ==
    /\ last' = out
    /\ IF Usable(op, out)
       THEN pc' = "done" /\ result' = Ok(out.val) /\ version' = version
       ELSE IF version = "v2c"
       THEN pc' = "connect_v1" /\ result' = result /\ version' = "none"
       ELSE IF SleepsAfter(attempt, config.retries)
       THEN pc' = "backoff" /\ result' = result /\ version' = version
       ELSE pc' = "done" /\ result' = Default(op) /\ version' = version

\* AfterAttempt with a usable v2c result kept only as a candidate: the loop goes on.
AfterAttempt_NoEarlyReturn(out) ==
    /\ last' = out
    /\ IF Usable(op, out) /\ version = "v1"
       THEN pc' = "done" /\ result' = Ok(out.val) /\ version' = version
       ELSE IF SleepsAfter(attempt, config.retries)
       THEN pc' = "backoff" /\ result' = result /\ version' = version
       ELSE IF version = "v2c"
       THEN pc' = "connect_v1" /\ result' = result /\ version' = "none"
       ELSE pc' = "done" /\ result' = Default(op) /\ version' = version

\* AfterAttempt that opens the session again before the next attempt.
AfterAttempt_Reconnects(out) ==
    /\ last' = out
    /\ IF Usable(op, out)
       THEN pc' = "done" /\ result' = Ok(out.val) /\ version' = version
       ELSE IF SleepsAfter(attempt, config.retries)
       THEN pc' = (IF version = "v2c" THEN "connect_v2c" ELSE "connect_v1")
            /\ result' = result /\ version' = version
       ELSE IF version = "v2c"
       THEN pc' = "connect_v1" /\ result' = result /\ version' = "none"
       ELSE pc' = "done" /\ result' = Default(op) /\ version' = version

\* The rest of one loop iteration once the session operation returned out:
\* return it when usable, else sleep when this was not the last attempt, else
\* leave the loop: on to the v1 session after the v2c loop, the default after
\* the v1 loop.
AfterAttempt(out) ==
    /\ last' = out
    /\ IF Usable(op, out)
       THEN pc' = "done" /\ result' = Ok(out.val) /\ version' = version
       ELSE IF SleepsAfter(attempt, config.retries)
       THEN pc' = "backoff" /\ result' = result /\ version' = version
       ELSE IF version = "v2c"
       THEN pc' = "connect_v1" /\ result' = result /\ version' = "none"
       ELSE pc' = "done" /\ result' = Default(op) /\ version' = version

\* The session operation that returned is over: its locals and its return
\* value are gone once the loop moves on.
Forgotten ==
    /\ current_oid' = <<>>
    /\ results' = <<>>
    /\ responses' = <<>>
    /\ wire' = NoneResp
    /\ last' = NoResult

\* A caller starts a client operation. (With OverflowRetries only the
\* single-value operations are called: the walks' loops are the same loop.)
Call ==
    /\ pc = "idle"
    /\ \E o \in ClientOps, b \in Bases :
        /\ config.retries = OverflowRetries => o \in SingleOps
        /\ op' = o
        /\ oid' = b
    /\ pc' = "connect_v2c"
    /\ UNCHANGED <<arg, ret, config, overflow_checks, conformant, version, attempt, current_oid,
                   results, responses, wire, last, result, io, opened, attempts_made>>

\* connect_v2c whose loop body runs once before the bound is tested.
connect_v2c_LoopsAtLeastOnce ==
    /\ pc = "connect_v2c"
    /\ \E ok \in BOOLEAN :
        /\ opened' = [opened EXCEPT !.v2c = IF ok THEN "ok" ELSE "failed"]
        /\ IF ok /\ op = "connect"
           THEN pc' = "done" /\ result' = Ok("v2c") /\ version' = "v2c"
           ELSE IF ok
           THEN pc' = "attempt" /\ result' = result /\ version' = "v2c"
           ELSE pc' = "connect_v1" /\ result' = result /\ version' = "none"
    /\ io' = IoOpen("v2c")
    /\ attempt' = 0
    /\ UNCHANGED <<arg, ret, config, overflow_checks, conformant, op, oid, current_oid, results,
                   responses, wire, last, attempts_made>>

\* if let Ok(mut session) = self.connect_v2c() { for attempt in 0..self.retries
connect_v2c ==
    /\ pc = "connect_v2c"
    /\ \E ok \in BOOLEAN :
        /\ opened' = [opened EXCEPT !.v2c = IF ok THEN "ok" ELSE "failed"]
        /\ IF ok /\ op = "connect"
           THEN pc' = "done" /\ result' = Ok("v2c") /\ version' = "v2c"
           ELSE IF ok /\ config.retries > 0
           THEN pc' = "attempt" /\ result' = result /\ version' = "v2c"
           ELSE pc' = "connect_v1" /\ result' = result /\ version' = "none"
    /\ io' = IoOpen("v2c")
    /\ attempt' = 0
    /\ UNCHANGED <<arg, ret, config, overflow_checks, conformant, op, oid, current_oid, results,
                   responses, wire, last, attempts_made>>

\* connect_v1 whose failure to open is not reported: the v2c failure is swallowed
\* and a session value is returned all the same.
connect_v1_SwallowsFailure ==
    /\ pc = "connect_v1"
    /\ \E ok \in BOOLEAN :
        /\ opened' = [opened EXCEPT !.v1 = IF ok THEN "ok" ELSE "failed"]
        /\ IF op = "connect"
           THEN pc' = "done" /\ result' = Ok("v1") /\ version' = "v1"
           ELSE IF ok /\ config.retries > 0
           THEN pc' = "attempt" /\ result' = result /\ version' = "v1"
           ELSE pc' = "done" /\ result' = Default(op) /\ version' = "none"
    /\ io' = IoOpen("v1")
    /\ attempt' = 0
    /\ Forgotten
    /\ UNCHANGED <<arg, ret, config, overflow_checks, conformant, op, oid, attempts_made>>

\* if let Ok(mut session) = self.connect_v1() { for attempt in 0..self.retries
\* and, for connect, self.connect_v1().map_err(|_| Error::Send)
connect_v1 ==
    /\ pc = "connect_v1"
    /\ \E ok \in BOOLEAN :
        /\ opened' = [opened EXCEPT !.v1 = IF ok THEN "ok" ELSE "failed"]
        /\ IF op = "connect"
           THEN pc' = "done" /\ result' = (IF ok THEN Ok("v1") ELSE Err("Send"))
                /\ version' = (IF ok THEN "v1" ELSE "none")
           ELSE IF ok /\ config.retries > 0
           THEN pc' = "attempt" /\ result' = result /\ version' = "v1"
           ELSE pc' = "done" /\ result' = Default(op) /\ version' = "none"
    /\ io' = IoOpen("v1")
    /\ attempt' = 0
    /\ Forgotten
    /\ UNCHANGED <<arg, ret, config, overflow_checks, conformant, op, oid, attempts_made>>

\* One iteration of get or get_value: the session's get, then the match.
get_attempt ==
    /\ pc = "attempt"
    /\ op \in SingleOps
    /\ \E resp \in {ErrResp, NoneResp} \cup {PairResp(oid, v) : v \in GetValues} :
        /\ wire' = resp
        /\ AfterAttempt(IF op = "get" THEN get_string(resp) ELSE get_value(resp))
    /\ io' = IoRequest("get", version, oid)
    /\ attempts_made' = [attempts_made EXCEPT ![version] = @ + 1]
    /\ UNCHANGED <<arg, ret, config, overflow_checks, conformant, op, oid, attempt, current_oid,
                   results, responses, opened>>

\* One iteration of a walk starts the session's walk: walk_values' first lines.
walk_begin ==
    /\ pc = "attempt"
    /\ op \in WalkOps
    /\ pc' = "walking"
    /\ results' = <<>>
    /\ current_oid' = oid
    /\ responses' = <<>>
    /\ io' = IoNone
    /\ attempts_made' = [attempts_made EXCEPT ![version] = @ + 1]
    /\ UNCHANGED <<arg, ret, config, overflow_checks, conformant, op, oid, version, attempt, wire,
                   last, result, opened>>

\* What the device may answer a get-next with. A conformant device answers
\* with an OID past the cursor or with nothing; any other device answers
\* anything, but stops answering with data of the subtree after MaxWalkLen pairs.
Answers ==
    {r \in {ErrResp, NoneResp} \cup
           {PairResp(p[1], p[2]) : p \in DevPairs} :
        /\ conformant /\ r.kind = "pair" => OidLess(current_oid, r.oid)
        /\ ~conformant /\ Continues(oid, r) => Len(results) < MaxWalkLen}

\* getnext_step where a transport failure ends the walk with the pairs collected so far.
getnext_step_PartialOnError ==
    /\ pc = "walking"
    /\ \E resp \in Answers :
        /\ responses' = Append(responses, resp)
        /\ IF Continues(oid, resp)
           THEN /\ results' = Append(results, <<resp.oid, from_value(resp.value)>>)
                /\ current_oid' = NextCursor(oid_to_string(resp.oid), oid)
                /\ UNCHANGED <<pc, result, version, last>>
           ELSE /\ AfterAttempt(Ok(Project(op, results)))
                /\ UNCHANGED <<results, current_oid>>
    /\ io' = IoRequest("getnext", version, current_oid)
    /\ UNCHANGED <<arg, ret, config, overflow_checks, conformant, op, oid, attempt, wire, opened,
                   attempts_made>>

\* getnext_step where a v2c walk that fails in the middle is resumed on v1 from
\* the cursor, with the pairs it has.
getnext_step_ResumesOnV1 ==
    /\ pc = "walking"
    /\ \E resp \in Answers :
        /\ responses' = Append(responses, resp)
        /\ IF resp.kind = "err" /\ version = "v2c" /\ results # <<>>
           THEN /\ version' = "v1"
                /\ UNCHANGED <<pc, result, last, results, current_oid>>
           ELSE IF resp.kind = "err"
           THEN /\ AfterAttempt(Err("transport"))
                /\ UNCHANGED <<results, current_oid>>
           ELSE IF Continues(oid, resp)
           THEN /\ results' = Append(results, <<resp.oid, from_value(resp.value)>>)
                /\ current_oid' = NextCursor(oid_to_string(resp.oid), oid)
                /\ UNCHANGED <<pc, result, version, last>>
           ELSE /\ AfterAttempt(Ok(Project(op, results)))
                /\ UNCHANGED <<results, current_oid>>
    /\ io' = IoRequest("getnext", version, current_oid)
    /\ UNCHANGED <<arg, ret, config, overflow_checks, conformant, op, oid, attempt, wire, opened,
                   attempts_made>>

\* getnext_step that appends the answer before it tests whether the walk goes on.
getnext_step_PushesFirst ==
    /\ pc = "walking"
    /\ \E resp \in Answers :
        /\ responses' = Append(responses, resp)
        /\ IF resp.kind = "err"
           THEN /\ AfterAttempt(Err("transport"))
                /\ UNCHANGED <<results, current_oid>>
           ELSE IF Continues(oid, resp)
           THEN /\ results' = Append(results, <<resp.oid, from_value(resp.value)>>)
                /\ current_oid' = NextCursor(oid_to_string(resp.oid), oid)
                /\ UNCHANGED <<pc, result, version, last>>
           ELSE IF resp.kind = "pair"
           THEN /\ results' = Append(results, <<resp.oid, from_value(resp.value)>>)
                /\ AfterAttempt(Ok(Project(op, results')))
                /\ UNCHANGED current_oid
           ELSE /\ AfterAttempt(Ok(Project(op, results)))
                /\ UNCHANGED <<results, current_oid>>
    /\ io' = IoRequest("getnext", version, current_oid)
    /\ UNCHANGED <<arg, ret, config, overflow_checks, conformant, op, oid, attempt, wire, opened,
                   attempts_made>>

\* One turn of walk_values' loop: the get-next and what follows it. When the
\* walk ends here, the session's walk returns and the client's match follows.
getnext_step ==
    /\ pc = "walking"
    /\ \E resp \in Answers :
        /\ responses' = Append(responses, resp)
        /\ IF resp.kind = "err"
           THEN /\ AfterAttempt(Err("transport"))
                /\ UNCHANGED <<results, current_oid>>
           ELSE IF Continues(oid, resp)
           THEN /\ results' = Append(results, <<resp.oid, from_value(resp.value)>>)
                /\ current_oid' = NextCursor(oid_to_string(resp.oid), oid)
                /\ UNCHANGED <<pc, result, version, last>>
           ELSE /\ AfterAttempt(Ok(Project(op, results)))
                /\ UNCHANGED <<results, current_oid>>
    /\ io' = IoRequest("getnext", version, current_oid)
    /\ UNCHANGED <<arg, ret, config, overflow_checks, conformant, op, oid, attempt, wire, opened,
                   attempts_made>>

\* backoff that counts the budget down in the client's own retries field.
backoff_ConsumesRetries ==
    /\ pc = "backoff"
    /\ LET d == backoff_duration(attempt, config.max_backoff_secs, overflow_checks)
       IN  IF d.panic
           THEN pc' = "panic" /\ io' = IoNone /\ attempt' = attempt
           ELSE pc' = "attempt" /\ io' = IoSleep(d.secs) /\ attempt' = attempt + 1
    /\ config' = [config EXCEPT !.retries = @ - 1]
    /\ Forgotten
    /\ UNCHANGED <<arg, ret, overflow_checks, conformant, op, oid, version, result, opened,
                   attempts_made>>

\* std::thread::sleep(self.backoff_duration(attempt)), then the next iteration.
backoff ==
    /\ pc = "backoff"
    /\ LET d == backoff_duration(attempt, config.max_backoff_secs, overflow_checks)
       IN  IF d.panic
           THEN pc' = "panic" /\ io' = IoNone /\ attempt' = attempt
           ELSE pc' = "attempt" /\ io' = IoSleep(d.secs) /\ attempt' = attempt + 1
    /\ Forgotten
    /\ UNCHANGED <<arg, ret, config, overflow_checks, conformant, op, oid, version, result, opened,
                   attempts_made>>

\* The caller has the result; the client is ready for the next operation.
finish ==
    /\ pc = "done"
    /\ pc' = "idle"
    /\ op' = "none"
    /\ oid' = <<>>
    /\ version' = "none"
    /\ attempt' = 0
    /\ current_oid' = <<>>
    /\ results' = <<>>
    /\ responses' = <<>>
    /\ wire' = NoneResp
    /\ last' = NoResult
    /\ result' = NoResult
    /\ io' = IoNone
    /\ opened' = [v2c |-> "no", v1 |-> "no"]
    /\ attempts_made' = [v2c |-> 0, v1 |-> 0]
    /\ UNCHANGED <<arg, ret, config, overflow_checks, conformant>>

Next ==
    \/ Call
    \/ connect_v2c
    \/ connect_v1
    \/ get_attempt
    \/ walk_begin
    \/ getnext_step
    \/ backoff
    \/ finish

Spec == Init /\ [][Next]_vars

\* The same client against a conformant device. The calling thread is the only
\* thread and every exchange blocks until an answer or the timeout, so a walk
\* that can take its next turn takes it.
InitConformant ==
    /\ config \in Configs
    /\ overflow_checks \in BOOLEAN
    /\ conformant = TRUE
    /\ Idle
    /\ arg = <<>>
    /\ ret = NoResult

SpecConformant == InitConformant /\ [][Next]_vars /\ WF_vars(getnext_step)

\* The client on the one thread that calls it: every open, request and sleep
\* blocks until it is over, so a step that can be taken is taken. The clients
\* here have one attempt per version or OverflowRetries of them, and the
\* default cap.
InitFair ==
    /\ config \in {c \in Configs : c.retries \in {1, OverflowRetries} /\ c.max_backoff_secs = 8}
    /\ overflow_checks \in BOOLEAN
    /\ conformant = FALSE
    /\ Idle
    /\ arg = <<>>
    /\ ret = NoResult

SpecFair == InitFair /\ [][Next]_vars /\ WF_vars(Next)

\* ------------------------------------------------- pure functions on their own

\* The client is not used while a pure function is applied on its own.
ClientUnused ==
    /\ config = [host |-> "192.168.1.1:161", community |-> "public", timeout |-> 2,
                 starting_req_id |-> 0, retries |-> 3, max_backoff_secs |-> 8]
    /\ overflow_checks = FALSE
    /\ conformant = FALSE
    /\ Idle

\* Arcs whose decimal texts are prefixes of one another.
ArcSet == {1, 4, 41, 411}
OidSet == UNION {[1..n -> ArcSet] : n \in 1..MaxArcs}

InitSubtree ==
    /\ ClientUnused
    /\ arg \in OidSet \X OidSet
    /\ ret = NoResult

\* is_subtree(&base_str, &next_oid_str) on the texts of arg's two OIDs.
apply_is_subtree ==
    /\ ret = NoResult
    /\ ret' = Ok(is_subtree(oid_to_string(arg[1]), oid_to_string(arg[2])))
    /\ UNCHANGED <<arg, client_vars>>

SpecSubtree == InitSubtree /\ [][apply_is_subtree]_vars

\* The attempts a retry loop of up to OverflowRetries passes to backoff_duration
\* (attempt < retries - 1), against several caps, in both builds.
BackoffCaps == {0, 1, 3, 8, 100}

InitBackoff ==
    /\ ClientUnused
    /\ arg \in (0..(OverflowRetries - 2)) \X BackoffCaps \X BOOLEAN
    /\ ret = NoResult

\* self.backoff_duration(attempt) with max_backoff_secs = arg[2].
apply_backoff_duration ==
    /\ ret = NoResult
    /\ ret' = Ok(backoff_duration(arg[1], arg[2], arg[3]))
    /\ UNCHANGED <<arg, client_vars>>

SpecBackoff == InitBackoff /\ [][apply_backoff_duration]_vars

\* The texts parse_oid is applied to: every text of up to MaxTextLen
\* characters over '.', '+', '0', '1', '3' and 'a', and some longer ones:
\* "1.3.6.abc.1", "..1.3", ".1.3.6.1.2.1", "1.3.6.1.2.1", "01.003",
\* "4294967296" and "2147483647".
TextAlphabet == {Dot, 43, 48, 49, 51, 97}
LongTexts ==
    {<<49, 46, 51, 46, 54, 46, 97, 98, 99, 46, 49>>,
     <<46, 46, 49, 46, 51>>,
     <<46, 49, 46, 51, 46, 54, 46, 49, 46, 50, 46, 49>>,
     <<49, 46, 51, 46, 54, 46, 49, 46, 50, 46, 49>>,
     <<48, 49, 46, 48, 48, 51>>,
     <<52, 50, 57, 52, 57, 54, 55, 50, 57, 54>>,
     <<50, 49, 52, 55, 52, 56, 51, 54, 52, 55>>}
Texts == UNION {[1..n -> TextAlphabet] : n \in 0..MaxTextLen} \cup LongTexts

InitParse ==
    /\ ClientUnused
    /\ arg \in Texts
    /\ ret = NoResult

\* parse_oid(arg)
apply_parse_oid ==
    /\ ret = NoResult
    /\ ret' = Ok(parse_oid(arg))
    /\ UNCHANGED <<arg, client_vars>>

SpecParse == InitParse /\ [][apply_parse_oid]_vars

\* The wire values the conversions of value.rs are applied to: every kind,
\* the numeric kinds at the ends of their ranges, and every byte string of up
\* to MaxBytes bytes over 0, 'h' and 0xFF.
ByteStrings == UNION {[1..n -> {0, 104, 255}] : n \in 0..MaxBytes}
I64Payloads == {<<0>>, <<7>>, <<0 - 1>>, <<0 - 42>>, <<2147483647>>, <<0 - 1, 1>>, <<0, 0 - 1>>}
U64Payloads == {<<0>>, <<12>>, <<2147483647>>, <<0 - 1, 1>>, <<0, 1>>, <<0 - 1, 2>>}
U32Payloads == {<<0>>, <<100>>, <<2147483647>>}
WireValues ==
    GetValues
    \cup {Val("Integer", v) : v \in I64Payloads}
    \cup {Val("Counter64", v) : v \in U64Payloads}
    \cup {Val(k, v) : k \in {"Counter32", "Unsigned32", "Timeticks"}, v \in U32Payloads}
    \cup {Val(k, v) : k \in {"OctetString", "Opaque"}, v \in ByteStrings}
    \cup {Val("Boolean", <<0>>), Val("IpAddress", <<0, 0, 0, 0>>),
          Val("GetRequest", <<>>), Val("Response", <<>>)}

InitValue ==
    /\ ClientUnused
    /\ arg \in WireValues
    /\ ret = NoResult

\* OwnedValue::from_value(&arg) and the snapshot's methods, and the ValueExt
\* methods of the wire value arg itself.
apply_conversions ==
    /\ ret = NoResult
    /\ LET owned == from_value(arg)
       IN  ret' = Ok([owned |-> owned, is_error |-> is_error(owned),
                      as_i64 |-> as_i64(owned), as_u64 |-> as_u64(owned),
                      to_string_lossy |-> to_string_lossy(owned),
                      as_bytes |-> as_bytes(owned), as_str |-> as_str(owned),
                      as_ipv4 |-> as_ipv4(owned),
                      ext |-> [to_string_lossy |-> ValueExt_to_string_lossy(arg),
                               as_i64 |-> ValueExt_as_i64(arg),
                               as_u64 |-> ValueExt_as_u64(arg),
                               as_bytes |-> ValueExt_as_bytes(arg),
                               as_str |-> ValueExt_as_str(arg),
                               as_ipv4 |-> ValueExt_as_ipv4(arg)]])
    /\ UNCHANGED <<arg, client_vars>>

SpecValue == InitValue /\ [][apply_conversions]_vars

\* The results of walk_values the derived walks are applied to: up to
\* MaxPairs pairs of an OID and a snapshot of any kind that is not a marker.
WalkedValues ==
    {from_value(v) : v \in {w \in GetValues : ~is_error(from_value(w))}}
    \cup {Val("Opaque", <<255>>), Val("IpAddress", <<0, 0, 0, 0>>)}
WalkedPairs == {<<1, 3, 4, 1>>, <<1, 3, 4, 2>>} \X WalkedValues
WalkResults == UNION {[1..n -> WalkedPairs] : n \in 0..MaxPairs}

InitProject ==
    /\ ClientUnused
    /\ arg \in WalkResults
    /\ ret = NoResult

\* The three derived walks, each on self.walk_values(oid)? = arg.
apply_projections ==
    /\ ret = NoResult
    /\ ret' = Ok([walk_bytes |-> walk_bytes(arg), walk |-> walk(arg),
                  walk_strings |-> walk_strings(arg)])
    /\ UNCHANGED <<arg, client_vars>>

SpecProject == InitProject /\ [][apply_projections]_vars

RECURSIVE Concat(_, _)
\* parts with the text sep between them.
Concat(parts, sep) ==
    IF parts = <<>> THEN <<>>
    ELSE IF Len(parts) = 1 THEN parts[1]
    ELSE parts[1] \o sep \o Concat(Tail(parts), sep)

\* The bytes parse_mac is applied to. Texts of MaxGroups - 1 or MaxGroups
\* groups "aA", "0f" or "zz", joined by ':', '-' or nothing, with or without
\* "0x" before and white space around; raw bytes 0x01, 'a', 0xFF up to
\* MaxRawLen of them; and ":::::aabbccddeeff", "-----aabbccddeeff",
\* "AA-BB-CC-DD-EE-FF", "not-a-mac", "0Xaabbccddeeff".
MacGroups == {<<97, 65>>, <<48, 102>>, <<122, 122>>}
MacSeparators == {<<Colon>>, <<Minus>>, <<>>}
MacTexts ==
    {pad[1] \o pre \o Concat(g, sep) \o pad[2] :
        pad \in {<<<<>>, <<>>>>, <<<<32>>, <<13, 10>>>>},
        pre \in {<<>>, <<48, 120>>},
        sep \in MacSeparators,
        g \in UNION {[1..n -> MacGroups] : n \in (MaxGroups - 1)..MaxGroups}}
RawBytes == UNION {[1..n -> {1, 97, 255}] : n \in 0..MaxRawLen}
OddTexts ==
    {<<58, 58, 58, 58, 58, 97, 97, 98, 98, 99, 99, 100, 100, 101, 101, 102, 102>>,
     <<45, 45, 45, 45, 45, 97, 97, 98, 98, 99, 99, 100, 100, 101, 101, 102, 102>>,
     <<65, 65, 45, 66, 66, 45, 67, 67, 45, 68, 68, 45, 69, 69, 45, 70, 70>>,
     <<97, 58, 45, 98, 98, 45, 99, 99, 45, 100, 100, 45, 101, 101, 45, 102, 102>>,
     <<110, 111, 116, 45, 97, 45, 109, 97, 99>>,
     <<48, 88, 97, 97, 98, 98, 99, 99, 100, 100, 101, 101, 102, 102>>}
MacInputs == MacTexts \cup RawBytes \cup OddTexts

InitMac ==
    /\ ClientUnused
    /\ arg \in MacInputs
    /\ ret = NoResult

\* parse_mac(arg)
apply_parse_mac ==
    /\ ret = NoResult
    /\ ret' = Ok(parse_mac(arg))
    /\ UNCHANGED <<arg, client_vars>>

SpecMac == InitMac /\ [][apply_parse_mac]_vars

\* ----------------------------------------------------------------- claims

RetryOps == SingleOps \cup WalkOps

\* Arc-wise containment: candidate is base or a descendant of it.
InSubtree(base, candidate) ==
    /\ Len(candidate) >= Len(base)
    /\ SubSeq(candidate, 1, Len(base)) = base

TerminalKinds == {"EndOfMibView", "NoSuchObject", "NoSuchInstance"}

\* The preferred version is exhausted: its open failed, or it made all its attempts.
PreferredExhausted ==
    \/ opened.v2c = "failed"
    \/ opened.v2c = "ok" /\ attempts_made.v2c = config.retries

\* C1: in a get, get_value or walk, nothing is done on the v1 session (no
\* open, no request) before the v2c version failed to open or made all
\* `retries` attempts; the v1 loop then counts its own attempts from 0, makes
\* at most `retries` of them, and makes exactly `retries` when none is usable.
C1_LegacyAfterPreferred ==
    op \in RetryOps =>
        /\ (io.ver = "v1" \/ opened.v1 # "no" \/ attempts_made.v1 > 0) => PreferredExhausted
        /\ attempts_made.v1 <= config.retries
        /\ version = "v1" /\ pc = "attempt" => attempts_made.v1 = attempt
        /\ pc = "done" /\ opened.v1 = "ok" /\ ~Usable(op, last) =>
                attempts_made.v1 = config.retries

\* Both versions opened and both made two attempts: the v1 budget is whole.
C1_Witness ==
    /\ op = "walk_values"
    /\ pc = "done"
    /\ io = IoRequest("getnext", "v1", oid)
    /\ opened = [v2c |-> "ok", v1 |-> "ok"]
    /\ attempts_made = [v2c |-> 2, v1 |-> 2]

\* The session operation that just returned gave a usable result.
UsableSeen == op \in RetryOps /\ Usable(op, last)

\* C2: a step in which an attempt yields a usable result ends the operation
\* with exactly that result, and a finished operation does nothing more to the
\* outside (no request, no sleep, no open): its next step hands over the result.
C2_ReturnsAtOnce ==
    [][/\ UsableSeen' => pc' = "done" /\ result' = Ok(last'.val)
       /\ pc = "done" => pc' = "idle" /\ io'.kind = "none" /\ opened' = [v2c |-> "no", v1 |-> "no"]
      ]_vars

\* A usable v2c result on the second attempt: v1 was never opened.
C2_Witness ==
    /\ op = "get_value"
    /\ pc = "done"
    /\ result = Ok(Val("Integer", <<7>>))
    /\ version = "v2c"
    /\ attempt = 1
    /\ opened.v1 = "no"

\* C3 (as claimed): when both opens fail, a get, get_value or walk returns an error.
C3_ConnectFailureSurfaces ==
    pc = "done" /\ op \in RetryOps /\ opened = [v2c |-> "failed", v1 |-> "failed"]
        => ~result.ok

\* The success default of each operation, as the specification lists them.
SuccessDefault(o) == IF o = "get_value" THEN Ok(Val("Null", <<>>)) ELSE Ok(<<>>)

\* C4: once a session opened on some version, a get, get_value or walk that
\* returns returns a success, and the success default when its last attempt
\* (hence every attempt) was not usable.
C4_NeverAnError ==
    pc = "done" /\ op \in RetryOps /\ "ok" \in {opened.v2c, opened.v1} =>
        /\ result.ok
        /\ ~Usable(op, last) => result = SuccessDefault(op)

\* A walk whose last v1 attempt met a transport failure returns the empty sequence.
C4_Witness ==
    /\ pc = "done"
    /\ op = "walk"
    /\ opened = [v2c |-> "ok", v1 |-> "ok"]
    /\ attempts_made.v1 = 2
    /\ last = Err("transport")
    /\ Len(responses) = 2
    /\ result = Ok(<<>>)

\* The answer to the last get is a Null value or has no result pair.
NullOrAbsent(resp) == resp.kind = "none" \/ (resp.kind = "pair" /\ resp.value.kind = "Null")

\* C5 (as claimed): a get or get_value that ends right after a Null or absent
\* answer ends because the budget of the last version is used up, with the default.
C5_NullNeverUsable ==
    pc = "done" /\ op \in SingleOps /\ io.kind = "get" /\ NullOrAbsent(wire) =>
        /\ version = "v1"
        /\ attempts_made.v1 = config.retries
        /\ result = SuccessDefault(op)

\* C6: every pair walk_values holds or returns has an OID inside the base
\* subtree and a value that is not a terminal marker.
C6_PairsInsideSubtree ==
    /\ \A i \in 1..Len(results) :
            InSubtree(oid, results[i][1]) /\ results[i][2].kind \notin TerminalKinds
    /\ op = "walk_values" /\ last.ok =>
            \A i \in 1..Len(last.val) :
                InSubtree(oid, last.val[i][1]) /\ last.val[i][2].kind \notin TerminalKinds

\* A returned walk that met the sibling 1.3.41 of base 1.3.4 and left it out.
C6_Witness ==
    /\ op = "walk_values"
    /\ last.ok
    /\ Len(last.val) = 1
    /\ responses[Len(responses)] = PairResp(<<1, 3, 41>>, Val("Integer", <<7>>))

\* Whether an answer is present, inside the base subtree and no terminal marker.
Good(base, r) ==
    r.kind = "pair" /\ InSubtree(base, r.oid) /\ r.value.kind \notin TerminalKinds

RECURSIVE GoodPrefix(_, _)
\* The pairs of the longest prefix of answers that are all Good.
GoodPrefix(base, rs) ==
    IF rs = <<>> \/ ~Good(base, Head(rs)) THEN <<>>
    ELSE <<<<Head(rs).oid, from_value(Head(rs).value)>>>> \o GoodPrefix(base, Tail(rs))

\* C7: while walk_values runs every answer so far is Good and the pairs are
\* those answers in order; when it returns successfully the last answer is
\* the first that is not Good, and the result is the pairs of the answers before it.
C7_LongestGoodPrefix ==
    op \in WalkOps =>
        /\ results = GoodPrefix(oid, responses)
        /\ pc = "walking" => Len(results) = Len(responses)
        /\ pc # "walking" /\ last.ok =>
                /\ responses # <<>>
                /\ Len(results) = Len(responses) - 1
                /\ last.val = Project(op, results)

\* The scenario of the specification: two pairs, then an OID that left the subtree.
C7_Witness ==
    /\ op = "walk_values"
    /\ last = Ok(<<<<<<1, 3, 4, 1>>, Val("Integer", <<7>>)>>, <<<<1, 3, 4, 2>>, Val("Integer", <<7>>)>>>>)
    /\ Len(responses) = 3
    /\ responses[3].oid = <<1, 3, 41>>

\* C8: on the canonical texts of two OIDs, is_subtree is true exactly when the
\* candidate's arcs are the base's arcs or continue them; a shared textual
\* prefix or a shorter candidate is not containment.
C8_SubtreeIsArcWise ==
    ret.ok => (ret.val <=> InSubtree(arg[1], arg[2]))

\* Base 1.41 against 1.411: the text of the base is a prefix, the arcs are not.
C8_Witness ==
    /\ arg = <<(<<1, 41>>), (<<1, 411>>)>>
    /\ ret = Ok(FALSE)

\* The OIDs of the pairs are strictly increasing.
Increasing(pairs) ==
    \A i \in 1..(Len(pairs) - 1) : OidLess(pairs[i][1], pairs[i + 1][1])

\* C9: against a conformant device the OIDs walk_values collects are strictly
\* increasing, and every walk that started ends.
C9_ConformantWalkEnds ==
    /\ [](conformant /\ op \in WalkOps => Increasing(results))
    /\ (pc = "walking") ~> (pc # "walking")

\* A conformant walk that returned the two objects under the base.
C9_Witness ==
    /\ conformant
    /\ op = "walk_values"
    /\ pc = "done"
    /\ last.ok
    /\ Len(last.val) = 2
    /\ OidLess(last.val[1][1], last.val[2][1])

\* min(2^a, cap) for a cap below 2^30, as a number.
MinPow2(a, cap) == IF a >= 30 THEN cap ELSE Min(2 ^ a, cap)

\* C10 (as claimed): for every attempt a loop can pass and every cap,
\* backoff_duration returns min(2^attempt, cap) seconds.
C10_BackoffIsCappedPower ==
    ret.ok => ~ret.val.panic /\ ret.val.secs = MinPow2(arg[1], arg[2])

\* The attempt whose outcome is in last was not usable and was not the last
\* of its version's budget.
FailedBeforeLast ==
    /\ op \in RetryOps
    /\ io.kind \in {"get", "getnext"}
    /\ pc # "walking"
    /\ ~Usable(op, last)
    /\ attempt < config.retries - 1

\* C11: within one version's budget a sleep happens only between two
\* consecutive attempts of that version. An attempt numbered 0 follows the open
\* of its session directly and a later attempt follows a sleep; nothing but an
\* attempt follows a sleep (no sleep after the last attempt, none before the
\* v1 open); a failed attempt a < retries - 1 is followed by the sleep of
\* backoff_duration(a) and then by attempt a + 1 of the same version.
C11_SleepOnlyBetweenAttempts ==
    /\ [](pc = "attempt" =>
            IF attempt = 0 THEN io = IoOpen(version) ELSE io.kind = "sleep")
    /\ [](io.kind = "sleep" => pc = "attempt")
    /\ [](FailedBeforeLast <=> pc = "backoff")
    /\ [][/\ io'.kind = "sleep" =>
                /\ FailedBeforeLast
                /\ io.ver = version
                /\ io' = IoSleep(backoff_duration(attempt, config.max_backoff_secs,
                                                  overflow_checks).secs)
                /\ attempt' = attempt + 1
                /\ version' = version
          /\ pc = "backoff" => io'.kind = "sleep" \/ pc' = "panic"]_vars

\* The fourth sleep of a v1 loop has been slept, at the cap of 8 seconds.
C11_Witness ==
    /\ io = IoSleep(8)
    /\ version = "v1"
    /\ attempt = 4
    /\ pc = "attempt"

\* C12: connect() opens the v2c session first and returns it without opening
\* a v1 session when that succeeds; it opens the v1 session only after the v2c
\* open failed and returns it when that succeeds; it returns an error only
\* when both opens failed. It sends no request.
C12_ConnectPrefersV2c ==
    op = "connect" =>
        /\ opened.v1 # "no" => opened.v2c = "failed"
        /\ opened.v2c = "no" => pc = "connect_v2c" /\ io = IoNone
        /\ opened.v2c = "failed" /\ opened.v1 = "no" => pc = "connect_v1"
        /\ pc = "done" =>
            /\ opened.v2c = "ok" => result = Ok("v2c") /\ opened.v1 = "no"
            /\ opened.v2c = "failed" /\ opened.v1 = "ok" => result = Ok("v1")
            /\ ~result.ok <=> opened.v2c = "failed" /\ opened.v1 = "failed"
        /\ io.kind \in {"none", "open"}
        /\ attempts_made = [v2c |-> 0, v1 |-> 0]

\* connect() has returned the error: both opens failed.
C12_Witness ==
    /\ op = "connect"
    /\ pc = "done"
    /\ result = Err("Send")
    /\ opened = [v2c |-> "failed", v1 |-> "failed"]

\* s without one leading '.', when it has one.
StripOneDot(s) == IF s # <<>> /\ s[1] = Dot THEN Tail(s) ELSE s

\* A plain unsigned decimal number that fits 32 bits: digits only, at least one.
PlainU32(p) ==
    /\ p # <<>>
    /\ \A i \in 1..Len(p) : p[i] \in 48..57
    /\ FitsU32(p)

\* Some component of s, after at most one leading '.', is empty or not PlainU32.
Malformed(s) ==
    LET parts == SplitDots(StripOneDot(s))
    IN  \E i \in 1..Len(parts) : ~PlainU32(parts[i])

\* C13: parse_oid strips at most one leading '.' and fails for every text in
\* which, after that, a component is empty or is not a plain unsigned decimal
\* number fitting 32 bits.
C13_RejectsMalformed ==
    ret.ok /\ Malformed(arg) => ~ret.val.ok

\* C14 as stated: for every text s that parse_oid accepts, the text of the
\* parsed OID is s with its leading dot removed; s parses to the same OID with
\* and without a leading dot; and the text of an OID parses back to that OID.
C14_RoundTrip ==
    ret.ok /\ ret.val.ok =>
        /\ oid_to_string(ret.val.oid) = StripOneDot(arg)
        /\ parse_oid(<<Dot>> \o StripOneDot(arg)) = parse_oid(StripOneDot(arg))
        /\ parse_oid(oid_to_string(ret.val.oid)) = ret.val

\* The canonical decimal of an accepted component: no sign, no leading zeros.
CanonicalPart(p) ==
    LET z == StripZeros(IF p # <<>> /\ p[1] = 43 THEN Tail(p) ELSE p)
    IN  IF z = <<>> THEN <<48>> ELSE z

\* s without its leading dots and with every component in canonical decimal.
CanonicalText(s) ==
    LET parts == SplitDots(TrimLeadingDots(s))
    IN  JoinDots([i \in 1..Len(parts) |-> CanonicalPart(parts[i])])

\* C14, amended: for every text s that parse_oid accepts, the text of the
\* parsed OID is the canonical form of s (leading dots removed, every component
\* without sign and leading zeros); s parses to the same OID with one more
\* leading dot; and the text of the parsed OID parses back to that OID.
C14_RoundTripCanonical ==
    ret.ok /\ ret.val.ok =>
        /\ oid_to_string(ret.val.oid) = CanonicalText(arg)
        /\ parse_oid(<<Dot>> \o arg) = ret.val
        /\ parse_oid(oid_to_string(ret.val.oid)) = ret.val

\* "01.003" has been parsed, to the OID 1.3.
C14_Witness ==
    /\ arg = <<48, 49, 46, 48, 48, 51>>
    /\ ret.ok
    /\ ret.val = [ok |-> TRUE, oid |-> <<1, 3>>]

\* C15: numeric extraction is exact or absent. as_i64 gives the number of an
\* Integer, Counter32, Unsigned32 or Timeticks, and of a Counter64 iff it is at
\* most 2^63 - 1; as_u64 gives the number of a Counter32, Unsigned32, Timeticks
\* or Counter64, and of an Integer iff it is at least 0; every other kind gives
\* none for both; and where both are defined they are the same number.
C15_ExactOrAbsent ==
    ret.ok =>
        LET x == ret.val.owned
            i == ret.val.as_i64
            u == ret.val.as_u64
        IN  /\ x.kind \in {"Integer", "Counter32", "Unsigned32", "Timeticks"} => i = Some(x.v)
            /\ x.kind = "Counter64" =>
                    i = (IF AtMostI64Max(x.v) THEN Some(x.v) ELSE None)
            /\ x.kind \in {"Counter32", "Unsigned32", "Timeticks", "Counter64"} => u = Some(x.v)
            /\ x.kind = "Integer" =>
                    u = (IF NonNegative(x.v) THEN Some(x.v) ELSE None)
            /\ x.kind \notin {"Integer", "Counter32", "Unsigned32", "Timeticks", "Counter64"} =>
                    i = None /\ u = None
            /\ i.some /\ u.some => i.v = u.v /\ NonNegative(i.v) /\ AtMostI64Max(i.v)

\* Counter64(u64::MAX) has been converted: no i64, the u64 itself.
C15_Witness ==
    /\ ret.ok
    /\ arg = Val("Counter64", <<0 - 1, 2>>)
    /\ ret.val.as_i64 = None
    /\ ret.val.as_u64 = Some(<<0 - 1, 2>>)

\* C16: is_error is true for exactly the kinds EndOfMibView, NoSuchObject and
\* NoSuchInstance, and false for every other kind, Null included; the snapshot
\* from_value makes is a terminal marker iff the wire value was of those kinds.
C16_TerminalMarkers ==
    ret.ok =>
        /\ ret.val.is_error <=> ret.val.owned.kind \in TerminalKinds
        /\ ret.val.owned.kind \in OwnedKinds \ TerminalKinds => ~ret.val.is_error
        /\ ret.val.is_error <=> arg.kind \in TerminalKinds

\* NoSuchInstance has been snapshot: a marker.
C16_Witness ==
    /\ ret.ok
    /\ arg = Val("NoSuchInstance", <<>>)
    /\ ret.val.owned = Val("NoSuchInstance", <<>>)
    /\ ret.val.is_error

\* The bytes of the dotted text of an IPv4 address.
DottedBytes(ip) ==
    into_bytes(ToDecimal(ip[1]) \o <<Dot>> \o ToDecimal(ip[2]) \o <<Dot>>
               \o ToDecimal(ip[3]) \o <<Dot>> \o ToDecimal(ip[4]))

\* The coercion to bytes of one walked value.
CoercedBytes(v) ==
    CASE v.kind \in {"OctetString", "Opaque"} -> v.v
      [] v.kind = "IpAddress" -> DottedBytes(v.v)
      [] OTHER -> into_bytes(to_string_lossy(v))

HexGroups(s, sep) ==
    /\ Len(s) = MacTextLen
    /\ \A i \in 1..Len(s) : IF i % 3 = 0 THEN s[i] = sep ELSE is_ascii_hexdigit(s[i])

\* Twelve hex digits.
HexDigits12(s) == Len(s) = MacHexLen /\ \A i \in 1..Len(s) : is_ascii_hexdigit(s[i])

\* One of the four accepted shapes (a text is taken without the white space
\* around it).
AcceptedShape(bytes) ==
    \/ Len(bytes) = MacBytes
    \/ /\ IsUtf8(bytes)
       /\ LET s == trim(bytes)
          IN  \/ HexGroups(s, Colon)
              \/ HexGroups(s, Minus)
              \/ HexDigits12(s)
              \/ Len(s) >= 2 /\ s[1] = 48 /\ s[2] = 120 /\ HexDigits12(SubSeq(s, 3, Len(s)))

\* The lowercase colon form: six groups of two lowercase hex digits joined by ':'.
LowercaseColonForm(t) ==
    /\ Len(t) = MacTextLen
    /\ \A i \in 1..Len(t) :
        IF i % 3 = 0 THEN t[i] = Colon ELSE t[i] \in (48..57) \cup (97..102)

\* C18: parse_mac succeeds only for the four accepted shapes and fails for
\* anything else, and every successful result is the lowercase colon form.
C18_OnlyAcceptedShapes ==
    ret.ok /\ ret.val.some =>
        /\ AcceptedShape(arg)
        /\ LowercaseColonForm(ret.val.v)

\* C19: no client operation changes a field of the client's configuration:
\* every step of connect, get, get_value, walk, walk_bytes and walk_values
\* leaves host, community, timeout, starting request id, retries and max
\* backoff as they were, so the configuration stays the one the client was
\* built with.
C19_ConfigIsFrame ==
    [][/\ config'.host = config.host
       /\ config'.community = config.community
       /\ config'.timeout = config.timeout
       /\ config'.starting_req_id = config.starting_req_id
       /\ config'.retries = config.retries
       /\ config'.max_backoff_secs = config.max_backoff_secs]_vars

\* A walk has used the whole budget of both versions, sleeps included, and returns.
C19_Witness ==
    /\ pc = "done"
    /\ op = "walk_bytes"
    /\ config.retries = 2
    /\ attempts_made = [v2c |-> 2, v1 |-> 2]

\* C20: in walk_values the first get-next request carries the base OID, and
\* every later request carries exactly the OID of the pair appended in the
\* step before it; while the walk runs the cursor is the OID of the last pair
\* appended (the base OID before the first), never reset to anything else.
C20_CursorFollowsLastPair ==
    /\ io.kind = "getnext" =>
        LET n == Len(responses)
        IN  /\ n >= 1
            /\ io.oid = (IF n = 1 THEN oid ELSE responses[n - 1].oid)
            /\ n > 1 => /\ Len(results) >= n - 1
                        /\ results[n - 1][1] = responses[n - 1].oid
    /\ pc = "walking" =>
        current_oid = (IF results = <<>> THEN oid ELSE results[Len(results)][1])

\* The third request of a walk has been sent: it carried the OID of the
\* second pair, as the second carried the OID of the first.
C20_Witness ==
    /\ io = IoRequest("getnext", "v2c", <<1, 3, 4, 2>>)
    /\ Len(responses) = 3
    /\ responses[1].oid = <<1, 3, 4, 1>>
    /\ responses[2].oid = <<1, 3, 4, 2>>
    /\ Len(results) = 2
    /\ oid = <<1, 3, 4>>

\* C21 (as claimed): an operation makes at most `retries` attempts per version
\* (at most 2 * retries in total) and at most retries - 1 sleeps per version
\* (the loop variable counts the sleeps of the version it runs), and every
\* operation that was called returns.
C21_BoundedAndReturns ==
    /\ [](op \in RetryOps =>
            /\ attempts_made.v2c <= config.retries
            /\ attempts_made.v1 <= config.retries
            /\ attempts_made.v2c + attempts_made.v1 <= 2 * config.retries
            /\ config.retries > 0 => attempt <= config.retries - 1)
    /\ (pc = "connect_v2c") ~> (pc = "done")

\* C22: an operation opens at most one session per version, the v2c session
\* first, and every attempt of a version runs on that one session: a session
\* is opened only for a version that has none yet, a request goes to the
\* version whose session is open, and the v1 session is opened only after the
\* v2c open. When the v2c open fails, no attempt and no sleep happens for v2c:
\* the step after the failed open is the v1 open.
C22_OneSessionPerVersion ==
    /\ [](op \in RetryOps =>
            /\ opened.v1 # "no" => opened.v2c # "no"
            /\ io.kind \in {"get", "getnext"} =>
                    /\ opened[io.ver] = "ok"
                    /\ version # "none" => io.ver = version
            /\ attempts_made.v2c > 0 => opened.v2c = "ok"
            /\ attempts_made.v1 > 0 => opened.v1 = "ok"
            /\ opened.v2c = "failed" =>
                    /\ attempts_made.v2c = 0
                    /\ version # "v2c"
                    /\ opened.v1 = "no" => pc = "connect_v1" /\ io = IoOpen("v2c"))
    /\ [][(op \in RetryOps /\ io'.kind = "open") =>
                /\ opened[io'.ver] = "no"
                /\ opened'[io'.ver] # "no"
                /\ io'.ver = "v1" => opened.v2c # "no"
                /\ attempts_made' = attempts_made
      ]_vars

\* The third attempt on the v1 session, after three on the v2c session.
C22_Witness ==
    /\ op = "get"
    /\ io = IoRequest("get", "v1", oid)
    /\ opened = [v2c |-> "ok", v1 |-> "ok"]
    /\ attempts_made = [v2c |-> 66, v1 |-> 3]

\* C23: walk_values has no cycle guard and no step limit. Every answer that
\* is Good is appended and the walk goes on, whether or not its OID is past
\* the cursor: while the device keeps answering so, the walk is still running
\* and holds one pair per answer, however many there are.
C23_NoCycleGuard ==
    op \in WalkOps /\ responses # <<>> /\ (\A i \in 1..Len(responses) : Good(oid, responses[i])) =>
        /\ pc = "walking"
        /\ Len(results) = Len(responses)
        /\ \A i \in 1..Len(responses) : results[i][1] = responses[i].oid
        /\ current_oid = responses[Len(responses)].oid

\* The device answered the base OID itself MaxWalkLen times: the walk holds as
\* many pairs, its cursor is the base OID again, and it is still running.
C23_Witness ==
    /\ pc = "walking"
    /\ Len(results) = MaxWalkLen
    /\ \A i \in 1..Len(results) : results[i][1] = oid
    /\ current_oid = oid

\* A get-next exchange of the running walk failed at the transport layer.
WalkFailed == op \in WalkOps /\ responses # <<>> /\ responses[Len(responses)].kind = "err"

\* C24: when a get-next exchange of a walk fails at the transport layer,
\* walk_values returns the error and no pair, whatever it had collected; the
\* client treats the walk as one unusable attempt (it sleeps, falls back or
\* returns the default, never the pairs), having counted one attempt for the
\* whole walk; and every walk attempt starts at the base OID with no pairs.
C24_TransportFailureDiscards ==
    /\ WalkFailed =>
        /\ last = Err("transport")
        /\ ~Usable(op, last)
        /\ pc \in {"backoff", "connect_v1", "done"}
        /\ pc = "done" => result = SuccessDefault(op)
        /\ pc = "backoff" => attempts_made[version] = attempt + 1
        /\ pc = "connect_v1" => attempts_made.v2c = config.retries
        /\ pc = "done" => attempts_made.v1 = config.retries
    /\ op \in WalkOps /\ pc = "walking" /\ responses = <<>> =>
        /\ current_oid = oid
        /\ results = <<>>
        /\ attempts_made[version] = attempt + 1

\* A walk that had collected a pair failed on its second exchange and the
\* client is about to sleep before walking again.
C24_Witness ==
    /\ WalkFailed
    /\ Len(results) >= 1
    /\ pc = "backoff"
    /\ attempt = 0

\* C25: the sequence a client walk returns is the complete result of one walk
\* attempt on one version. A non-empty result is the projection of the pairs
\* the attempt that just ended collected, and those pairs all come from that
\* attempt: pairs are only ever appended one at a time inside a running walk,
\* with the version and the attempt number unchanged, and a walk that is
\* running either was running on the same version and attempt the step before
\* or has just been started with no pair.
C25_OneAttemptOneVersion ==
    /\ [](op \in WalkOps /\ pc = "done" /\ result.ok /\ result.val # <<>> =>
            /\ result.val = Project(op, results)
            /\ last = result
            /\ io = IoRequest("getnext", version, current_oid))
    /\ [][(op \in WalkOps) =>
            /\ (results' # results /\ results' # <<>>) =>
                    /\ pc = "walking"
                    /\ Len(results') = Len(results) + 1
                    /\ SubSeq(results', 1, Len(results)) = results
                    /\ version' = version
                    /\ attempt' = attempt
            /\ (pc' = "walking") =>
                    \/ pc = "walking" /\ version' = version /\ attempt' = attempt
                    \/ pc = "attempt" /\ results' = <<>> /\ responses' = <<>>
      ]_vars

\* A walk has returned two pairs collected by the second attempt on v1, after
\* the v2c attempts and the first v1 attempt had been made.
C25_Witness ==
    /\ op \in WalkOps
    /\ pc = "done"
    /\ result.ok
    /\ Len(result.val) = 2
    /\ version = "v1"
    /\ attempt = 1
    /\ attempts_made = [v2c |-> 2, v1 |-> 2]

\* C26: with retries = 0 a client operation sends no get and no get-next and
\* never sleeps, on either version; no loop iteration runs, so retries - 1 is
\* never evaluated; and the operation returns the default value.
C26_ZeroRetries ==
    config.retries = 0 /\ op \in RetryOps =>
        /\ io.kind \in {"none", "open"}
        /\ attempts_made = [v2c |-> 0, v1 |-> 0]
        /\ pc \in {"connect_v2c", "connect_v1", "done"}
        /\ attempt = 0
        /\ responses = <<>>
        /\ last = NoResult
        /\ pc = "done" => result = SuccessDefault(op)

\* With retries = 0 and both sessions opened, get_value has returned.
C26_Witness ==
    /\ config.retries = 0
    /\ op = "get_value"
    /\ pc = "done"
    /\ opened = [v2c |-> "ok", v1 |-> "ok"]
    /\ result = SuccessDefault(op)

\* The session's walk_values returned Ok to the client's loop.
WalkReturnedOk == op \in WalkOps /\ responses # <<>> /\ last.ok

\* C27: when walk_values returns successfully with n pairs it has sent
\* exactly n + 1 get-next requests, and the i-th pair is the answer to the
\* i-th request. The requests go out one after another: each step of the walk
\* sends one request for the cursor, gets its one answer, and only then is
\* the next request made, for the cursor that answer produced.
C27_RequestsAndPairs ==
    /\ [](WalkReturnedOk =>
            /\ Len(responses) = Len(results) + 1
            /\ \A i \in 1..Len(results) :
                    /\ responses[i].kind = "pair"
                    /\ results[i] = <<responses[i].oid, from_value(responses[i].value)>>
            /\ io.kind = "getnext")
    /\ [][(op \in WalkOps /\ responses' # responses /\ responses' # <<>>) =>
            /\ pc = "walking"
            /\ Len(results) = Len(responses)
            /\ Len(responses') = Len(responses) + 1
            /\ SubSeq(responses', 1, Len(responses)) = responses
            /\ io' = IoRequest("getnext", version, current_oid)
            /\ results # <<>> =>
                    current_oid = NextCursor(oid_to_string(results[Len(results)][1]), oid)
            /\ results = <<>> => current_oid = oid
      ]_vars

\* walk_values returned two pairs after three get-next requests.
C27_Witness ==
    /\ op = "walk_values"
    /\ WalkReturnedOk
    /\ Len(results) = 2
    /\ Len(responses) = 3
    /\ result = Ok(results)

\* The six conversions the snapshot and the wire value both have.
SharedConversions == {"to_string_lossy", "as_i64", "as_u64", "as_bytes", "as_str", "as_ipv4"}

\* C28: snapshotting preserves every conversion: for every wire value, each
\* ValueExt conversion of the wire value gives what the conversion of the same
\* name gives on OwnedValue::from_value of it.
C28_SnapshotPreservesConversions ==
    ret.ok => \A c \in SharedConversions : ret.val.ext[c] = ret.val[c]

\* ---------------------------------------- get and get_value, side by side

\* What the session operation of client operation o returns for one answer.
SessionOp(o, resp) == IF o = "get" THEN get_string(resp) ELSE get_value(resp)

RECURSIVE ForLoop(_, _, _, _)
\* for attempt in attempt..self.retries { match session.get..(oid) { .. } .. }
\* on one session, the i-th request answered by answers[i]: whether the loop
\* returned, what, and how many attempts it made.
ForLoop(o, answers, a, retries) ==
    IF a >= retries THEN [returned |-> FALSE, val |-> <<>>, made |-> 0]
    ELSE LET out == SessionOp(o, Head(answers))
         IN  IF Usable(o, out) THEN [returned |-> TRUE, val |-> out.val, made |-> 1]
             ELSE LET rest == ForLoop(o, Tail(answers), a + 1, retries)
                  IN  [rest EXCEPT !.made = @ + 1]

\* SnmpClient::get (o = "get") and SnmpClient::get_value (o = "get_value") as
\* functions of which sessions open and of the device's answers in order: the
\* v2c loop, then the v1 loop on the answers that are left, then the default.
SnmpClient_single(o, opens, answers, retries) ==
    LET skipped == [returned |-> FALSE, val |-> <<>>, made |-> 0]
        a == IF opens.v2c THEN ForLoop(o, answers, 0, retries) ELSE skipped
        b == IF opens.v1
             THEN ForLoop(o, SubSeq(answers, a.made + 1, Len(answers)), 0, retries)
             ELSE skipped
    IN  IF a.returned THEN [result |-> Ok(a.val), attempts |-> a.made]
        ELSE IF b.returned THEN [result |-> Ok(b.val), attempts |-> a.made + b.made]
        ELSE [result |-> Default(o), attempts |-> a.made + b.made]

\* The answers of the device to the gets of one operation: a transport
\* failure, a response without a pair, and pairs with a number, a text, an
\* empty text, Null and a marker.
AgreeAnswers ==
    {ErrResp, NoneResp} \cup
    {PairResp(<<1, 3, 4>>, v) : v \in {Val("Integer", <<7>>), Val("OctetString", <<>>),
                                       NullV, Val("NoSuchObject", <<>>)}}

\* A client of 0..MaxRetries retries, the outcome of opening each session, and
\* one answer for each attempt the client can make.
InitAgree ==
    /\ config \in {c \in Configs : c.retries <= MaxRetries /\ c.max_backoff_secs = 8}
    /\ overflow_checks = FALSE
    /\ conformant = FALSE
    /\ Idle
    /\ arg \in [opens : [v2c : BOOLEAN, v1 : BOOLEAN],
                answers : [1..(2 * config.retries) -> AgreeAnswers]]
    /\ ret = NoResult

\* client.get(oid) and client.get_value(oid) against the same device.
apply_get_and_get_value ==
    /\ ret = NoResult
    /\ ret' = Ok([get |-> SnmpClient_single("get", arg.opens, arg.answers, config.retries),
                  get_value |-> SnmpClient_single("get_value", arg.opens, arg.answers,
                                                  config.retries)])
    /\ UNCHANGED <<arg, client_vars>>

SpecAgree == InitAgree /\ [][apply_get_and_get_value]_vars

\* C29: against the same sequence of device answers, client.get returns the
\* display text of the value client.get_value returns, and the two make the
\* same number of attempts.
C29_GetAgreesWithGetValue ==
    ret.ok =>
        /\ ret.val.get.result.ok = ret.val.get_value.result.ok
        /\ ret.val.get.result.val = to_string_lossy(ret.val.get_value.result.val)
        /\ ret.val.get.attempts = ret.val.get_value.attempts

\* C30: parse_mac is idempotent on its outputs: whenever it succeeds with
\* text t, parse_mac of the bytes of t succeeds and gives t again.
C30_Idempotent ==
    ret.ok /\ ret.val.some => parse_mac(into_bytes(ret.val.v)) = Some(ret.val.v)

====
